---- MODULE Spec2Model ----
(***************************************************************************)
(* Model of EXO1/src/SparseWeightVector.py: a sparse weight vector backed  *)
(* by a defaultdict, its arithmetic operators, dot product, feature coding *)
(* and text serialization.                                                 *)
(*                                                                         *)
(* Representation.                                                         *)
(*  - A Python str is a sequence of one-character strings.                 *)
(*  - A Python object used inside a key is a record [t, v]: t = "str" and  *)
(*    v = <<s>>, or t = "tuple" and v = the sequence of its str elements.  *)
(*  - A dictionary key is a Python tuple: a sequence of such objects.      *)
(*  - A number is a record [n, f]: n is its value counted in tenths (a     *)
(*    decimal fixed-point number with one fractional digit, products and   *)
(*    quotients rounded to the nearest tenth), f tells a float from an int.*)
(*  - A defaultdict is a record [factory, items], items being the entries  *)
(*    in insertion order.                                                  *)
(*  - Dictionaries live in a heap; a vector is known by the address of the *)
(*    dictionary its field `weights` points to.                            *)
(***************************************************************************)
EXTENDS Integers, Sequences, FiniteSets, TLC

VARIABLES heap, a, b, res, ret, op, stream, pc

vars == <<heap, a, b, res, ret, op, stream, pc>>

(***************************************************************************)
(* Bounds of the model.                                                    *)
(***************************************************************************)
NumIds == 8
MaxEntries == 2
MaxXs == 3
MaxTokens == 3

Ids == 1..NumIds

(***************************************************************************)
(* Python values.                                                          *)
(***************************************************************************)
PyStr(s) == [t |-> "str", v |-> <<s>>]
PyTuple(es) == [t |-> "tuple", v |-> es]

\* 1.0, the literal of code_phi, in tenths.
One == 10

Float(n) == [n |-> n, f |-> TRUE]
IntNum(i) == [n |-> i * One, f |-> FALSE]

Abs(i) == IF i < 0 THEN -i ELSE i

\* p / q rounded to the nearest integer (q # 0).
RoundDiv(p, q) ==
    LET s == IF (p < 0) = (q < 0) THEN 1 ELSE -1
    IN  s * ((2 * Abs(p) + Abs(q)) \div (2 * Abs(q)))

NumAdd(x, y) == [n |-> x.n + y.n, f |-> x.f \/ y.f]
NumSub(x, y) == [n |-> x.n - y.n, f |-> x.f \/ y.f]
NumMul(x, y) == [n |-> RoundDiv(x.n * y.n, One), f |-> x.f \/ y.f]
NumNeg(x) == [n |-> -x.n, f |-> x.f]
\* True division: the caller has checked y.n # 0.
NumDiv(x, y) == [n |-> RoundDiv(x.n * One, y.n), f |-> TRUE]

(***************************************************************************)
(* Return values and exceptions of a call.                                 *)
(***************************************************************************)
NoNum == [n |-> 0, f |-> FALSE]
RetNone == [kind |-> "none", id |-> 0, v |-> NoNum, exc |-> ""]
RetVec(i) == [kind |-> "vec", id |-> i, v |-> NoNum, exc |-> ""]
RetNum(x) == [kind |-> "num", id |-> 0, v |-> x, exc |-> ""]
RetErr(e) == [kind |-> "err", id |-> 0, v |-> NoNum, exc |-> e]

(***************************************************************************)
(* defaultdict.                                                            *)
(***************************************************************************)
NoDict == [factory |-> "none", items |-> <<>>]
EmptyDict(fac) == [factory |-> fac, items |-> <<>>]

\* float() is 0.0 and int() is 0.
FactoryZero(fac) == IF fac = "int" THEN IntNum(0) ELSE Float(0)

DictIndex(d, k) ==
    IF \E i \in 1..Len(d.items) : d.items[i].k = k
    THEN CHOOSE i \in 1..Len(d.items) : d.items[i].k = k
    ELSE 0

DictKeys(d) == {d.items[i].k : i \in 1..Len(d.items)}

\* d[k] = v
DictSetItem(d, k, v) ==
    LET i == DictIndex(d, k)
    IN  IF i # 0
        THEN [d EXCEPT !.items[i].v = v]
        ELSE [d EXCEPT !.items = Append(@, [k |-> k, v |-> v])]

\* A lookup that answers the factory's value for a missing key without
\* storing it, as dict.get would.
DictGetItemKeepsAbsent(d, k) ==
    LET i == DictIndex(d, k)
    IN  IF i # 0
        THEN [d |-> d, v |-> d.items[i].v]
        ELSE [d |-> d, v |-> FactoryZero(d.factory)]

\* d[k]: __missing__ first stores a missing key with the factory's value.
DictGetItem(d, k) ==
    LET i == DictIndex(d, k)
    IN  IF i # 0
        THEN [d |-> d, v |-> d.items[i].v]
        ELSE [d |-> DictSetItem(d, k, FactoryZero(d.factory)),
              v |-> FactoryZero(d.factory)]

(***************************************************************************)
(* The heap of dictionaries.                                               *)
(***************************************************************************)
Alloc(h) == CHOOSE i \in Ids : h[i] = NoDict /\ \A j \in Ids : h[j] = NoDict => i <= j

\* Drops the dictionaries no variable reaches.
Collect(h, roots) == [i \in Ids |-> IF i \in roots THEN h[i] ELSE NoDict]

\* SparseWeightVector(): a vector with a fresh defaultdict(float).
__init__(h) ==
    LET i == Alloc(h)
    IN  [heap |-> [h EXCEPT ![i] = EmptyDict("float")], id |-> i]

\* A copy that shares the dictionary instead of duplicating it.
DictCopyShared(h, i) == [heap |-> h, id |-> i]

\* self.weights.copy()
DictCopy(h, i) ==
    LET j == Alloc(h)
    IN  [heap |-> [h EXCEPT ![j] = h[i]], id |-> j]

(***************************************************************************)
(* Access.                                                                 *)
(***************************************************************************)
\* w(x_key, y_key)
__call__(h, self, x_key, y_key) ==
    LET r == DictGetItem(h[self], <<x_key, y_key>>)
    IN  [heap |-> [h EXCEPT ![self] = r.d], ret |-> RetNum(r.v)]

\* w[key]; tuple(key) of a tuple is the tuple itself.
__getitem__(h, self, key) ==
    LET r == DictGetItem(h[self], key)
    IN  [heap |-> [h EXCEPT ![self] = r.d], ret |-> RetNum(r.v)]

\* w[key] = value
__setitem__(h, self, key, value) ==
    [heap |-> [h EXCEPT ![self] = DictSetItem(@, key, value)], ret |-> RetNone]

(***************************************************************************)
(* Dot product.                                                            *)
(***************************************************************************)
RECURSIVE DotTerms(_, _, _, _)
\* [self.weights[(x_key, y_key)] for x_key in xvec_keys], from element i on.
DotTerms(d, xvec_keys, y_key, i) ==
    IF i > Len(xvec_keys)
    THEN [d |-> d, vs |-> <<>>]
    ELSE LET r == DictGetItem(d, <<xvec_keys[i], y_key>>)
             rest == DotTerms(r.d, xvec_keys, y_key, i + 1)
         IN  [d |-> rest.d, vs |-> <<r.v>> \o rest.vs]

RECURSIVE SumFrom(_, _, _)
SumFrom(vs, i, acc) ==
    IF i > Len(vs) THEN acc ELSE SumFrom(vs, i + 1, NumAdd(acc, vs[i]))

\* The builtin sum() starts from the int 0.
sum(vs) == SumFrom(vs, 1, IntNum(0))

\* A dot product that counts each distinct x_key once.
dotDistinct(h, self, xvec_keys, y_key) ==
    LET t == DotTerms(h[self], xvec_keys, y_key, 1)
        first == {i \in 1..Len(xvec_keys) :
                     \A j \in 1..(i - 1) : xvec_keys[j] # xvec_keys[i]}
        keep == [i \in 1..Len(xvec_keys) |->
                     IF i \in first THEN t.vs[i] ELSE IntNum(0)]
    IN  [heap |-> [h EXCEPT ![self] = t.d], ret |-> RetNum(sum(keep))]

dot(h, self, xvec_keys, y_key) ==
    LET t == DotTerms(h[self], xvec_keys, y_key, 1)
    IN  [heap |-> [h EXCEPT ![self] = t.d], ret |-> RetNum(sum(t.vs))]

(***************************************************************************)
(* Feature coding.                                                         *)
(***************************************************************************)
RECURSIVE CodePhiLoop(_, _, _, _, _)
\* for xkey in xvec_keys: w[(xkey, ykey)] += 1.0
CodePhiLoop(h, w, xvec_keys, ykey, i) ==
    IF i > Len(xvec_keys)
    THEN h
    ELSE LET key == <<xvec_keys[i], ykey>>
             g == __getitem__(h, w, key)
             s == __setitem__(g.heap, w, key, NumAdd(g.ret.v, Float(One)))
         IN  CodePhiLoop(s.heap, w, xvec_keys, ykey, i + 1)

RECURSIVE CodePhiBoolLoop(_, _, _, _, _)
\* A coding that marks presence: w[(xkey, ykey)] = 1.0
CodePhiBoolLoop(h, w, xvec_keys, ykey, i) ==
    IF i > Len(xvec_keys)
    THEN h
    ELSE LET s == __setitem__(h, w, <<xvec_keys[i], ykey>>, Float(One))
         IN  CodePhiBoolLoop(s.heap, w, xvec_keys, ykey, i + 1)

code_phi_bool(h, xvec_keys, ykey) ==
    LET w == __init__(h)
    IN  [heap |-> CodePhiBoolLoop(w.heap, w.id, xvec_keys, ykey, 1),
         ret |-> RetVec(w.id)]

code_phi(h, xvec_keys, ykey) ==
    LET w == __init__(h)
    IN  [heap |-> CodePhiLoop(w.heap, w.id, xvec_keys, ykey, 1),
         ret |-> RetVec(w.id)]

(***************************************************************************)
(* Arithmetic.                                                             *)
(***************************************************************************)
RECURSIVE AddLoop(_, _, _, _)
\* for key, value in other.weights.items(): weights[key] += value
\* (w is the address of weights, other the address of other.weights)
AddLoop(h, w, other, i) ==
    IF i > Len(h[other].items)
    THEN h
    ELSE LET e == h[other].items[i]
             r == DictGetItem(h[w], e.k)
             d == DictSetItem(r.d, e.k, NumAdd(r.v, e.v))
         IN  AddLoop([h EXCEPT ![w] = d], w, other, i + 1)

RECURSIVE SubLoop(_, _, _, _)
\* for key, value in other.weights.items(): weights[key] -= value
SubLoop(h, w, other, i) ==
    IF i > Len(h[other].items)
    THEN h
    ELSE LET e == h[other].items[i]
             r == DictGetItem(h[w], e.k)
             d == DictSetItem(r.d, e.k, NumSub(r.v, e.v))
         IN  SubLoop([h EXCEPT ![w] = d], w, other, i + 1)

RECURSIVE MulLoop(_, _, _, _, _)
\* for key, value in self.weights.items(): weights[key] *= scalar
MulLoop(h, w, self, scalar, i) ==
    IF i > Len(h[self].items)
    THEN h
    ELSE LET e == h[self].items[i]
             r == DictGetItem(h[w], e.k)
             d == DictSetItem(r.d, e.k, NumMul(r.v, scalar))
         IN  MulLoop([h EXCEPT ![w] = d], w, self, scalar, i + 1)

RECURSIVE DivLoop(_, _, _, _, _)
\* for key, value in self.weights.items(): weights[key] /= scalar
\* Dividing by an int or float zero raises ZeroDivisionError and ends the loop.
DivLoop(h, w, self, scalar, i) ==
    IF i > Len(h[self].items)
    THEN [heap |-> h, exc |-> ""]
    ELSE LET e == h[self].items[i]
             r == DictGetItem(h[w], e.k)
         IN  IF scalar.n = 0
             THEN [heap |-> [h EXCEPT ![w] = r.d], exc |-> "ZeroDivisionError"]
             ELSE DivLoop([h EXCEPT ![w] = DictSetItem(r.d, e.k, NumDiv(r.v, scalar))],
                          w, self, scalar, i + 1)

RECURSIVE NegLoop(_, _, _, _)
\* for key, value in self.weights.items(): w.weights[key] = -value
NegLoop(h, w, self, i) ==
    IF i > Len(h[self].items)
    THEN h
    ELSE LET e == h[self].items[i]
         IN  NegLoop([h EXCEPT ![w] = DictSetItem(@, e.k, NumNeg(e.v))], w, self, i + 1)

\* An addition that visits the keys of self only and so loses b's own keys.
__add__SelfKeys(h, self, other) ==
    LET c == DictCopy(h, self)
        sum1 == [i \in 1..Len(h[self].items) |->
                    LET k == h[self].items[i].k
                        j == DictIndex(h[other], k)
                    IN  [k |-> k,
                         v |-> IF j = 0 THEN h[self].items[i].v
                               ELSE NumAdd(h[self].items[i].v, h[other].items[j].v)]]
    IN  [heap |-> [c.heap EXCEPT ![c.id].items = sum1], ret |-> RetVec(c.id)]

\* self + other. The vector w made by SparseWeightVector() is given the copy
\* as its weights, which leaves the dictionary it was built with unreachable.
__add__(h, self, other) ==
    LET c == DictCopy(h, self)
        h1 == AddLoop(c.heap, c.id, other, 1)
        w == __init__(h1)
    IN  [heap |-> w.heap, ret |-> RetVec(c.id)]

\* self - other
__sub__(h, self, other) ==
    LET c == DictCopy(h, self)
        h1 == SubLoop(c.heap, c.id, other, 1)
        w == __init__(h1)
    IN  [heap |-> w.heap, ret |-> RetVec(c.id)]

\* self * scalar
__mul__(h, self, scalar) ==
    LET c == DictCopy(h, self)
        h1 == MulLoop(c.heap, c.id, self, scalar, 1)
        w == __init__(h1)
    IN  [heap |-> w.heap, ret |-> RetVec(c.id)]

\* scalar * self
__rmul__(h, self, scalar) == __mul__(h, self, scalar)

\* self / scalar
__truediv__(h, self, scalar) ==
    LET c == DictCopy(h, self)
        l == DivLoop(c.heap, c.id, self, scalar, 1)
        w == __init__(l.heap)
    IN  IF l.exc # ""
        THEN [heap |-> l.heap, ret |-> RetErr(l.exc)]
        ELSE [heap |-> w.heap, ret |-> RetVec(c.id)]

\* An in-place addition that subtracts, as __isub__ does.
__iadd__Subtracts(h, self, other) ==
    [heap |-> SubLoop(h, self, other, 1), ret |-> RetVec(self)]

\* self += other
__iadd__(h, self, other) ==
    [heap |-> AddLoop(h, self, other, 1), ret |-> RetVec(self)]

\* self -= other
__isub__(h, self, other) ==
    [heap |-> SubLoop(h, self, other, 1), ret |-> RetVec(self)]

\* -self
__neg__(h, self) ==
    LET w == __init__(h)
    IN  [heap |-> NegLoop(w.heap, w.id, self, 1), ret |-> RetVec(w.id)]

(***************************************************************************)
(* Inputs.                                                                 *)
(***************************************************************************)
sa == <<"a">>
sb == <<"b">>
cA == <<"A">>
cB == <<"B">>
cC == <<"C">>

XAtoms == {PyStr(sa), PyStr(sb)}
XTuples == {PyTuple(<<sa, sb>>)}

KeyAA == <<PyStr(sa), PyStr(cA)>>
KeyBA == <<PyStr(sb), PyStr(cA)>>
KeyTB == <<PyTuple(<<sa, sb>>), PyStr(cB)>>
ArithKeys == {KeyAA, KeyBA, KeyTB}

InValues == {Float(One), Float(-5)}
Scalars == {Float(5), IntNum(2), Float(0), IntNum(0)}

\* The entry lists of at most n entries with distinct keys.
InputItems(keys, values, n) ==
    {its \in UNION {[1..m -> [k : keys, v : values]] : m \in 0..n} :
        \A i, j \in 1..Len(its) : its[i].k = its[j].k => i = j}

NoKey == <<>>
NoObj == PyStr(<<>>)
\* The last call: its name, the variables it was applied to and its arguments.
OpRec(name, x, y, s, key, xs, yk, yk2) ==
    [name |-> name, x |-> x, y |-> y, s |-> s, key |-> key, xs |-> xs,
     yk |-> yk, yk2 |-> yk2]
OpVec(name, x, y) == OpRec(name, x, y, NoNum, NoKey, <<>>, NoObj, NoObj)
OpScalar(name, x, s) == OpRec(name, x, "", s, NoKey, <<>>, NoObj, NoObj)
OpKey(name, x, key, s) == OpRec(name, x, "", s, key, <<>>, NoObj, NoObj)
OpXs(name, x, xs, yk) == OpRec(name, x, "", NoNum, NoKey, xs, yk, NoObj)

\* The dictionary a variable's vector holds.
Var(name) == CASE name = "a" -> a [] name = "b" -> b [] OTHER -> res

EmptyHeap == [i \in Ids |-> NoDict]

\* The call returns r: a returned vector is bound to res, an exception leaves
\* res as it was, and unreachable dictionaries are dropped.
Return(r, o, next) ==
    /\ ret' = r.ret
    /\ res' = IF r.ret.kind = "vec" THEN r.ret.id ELSE res
    /\ heap' = Collect(r.heap, {a, b, res'})
    /\ op' = o
    /\ pc' = next
    /\ UNCHANGED <<a, b, stream>>

(***************************************************************************)
(* Spec: the arithmetic operators applied to two vectors a and b, then an  *)
(* in-place update of the result.                                          *)
(***************************************************************************)
Init ==
    /\ \E fa \in {"float", "int"} :
       \E ia, ib \in InputItems(ArithKeys, InValues, MaxEntries) :
           heap = [EmptyHeap EXCEPT ![1] = [factory |-> fa, items |-> ia],
                                    ![2] = [factory |-> "float", items |-> ib]]
    /\ a = 1
    /\ b = 2
    /\ res = 0
    /\ ret = RetNone
    /\ op = OpVec("init", "", "")
    /\ stream = <<>>
    /\ pc = "in"

Operands == {<<"a", "b">>, <<"b", "a">>, <<"a", "a">>}

Add ==
    /\ pc = "in"
    /\ \E xy \in Operands :
           Return(__add__(heap, Var(xy[1]), Var(xy[2])), OpVec("add", xy[1], xy[2]), "out")

Sub ==
    /\ pc = "in"
    /\ \E xy \in Operands :
           Return(__sub__(heap, Var(xy[1]), Var(xy[2])), OpVec("sub", xy[1], xy[2]), "out")

Mul ==
    /\ pc = "in"
    /\ \E s \in Scalars :
           Return(__rmul__(heap, a, s), OpScalar("mul", "a", s), "out")

Div ==
    /\ pc = "in"
    /\ \E s \in Scalars :
           Return(__truediv__(heap, a, s), OpScalar("truediv", "a", s), "out")

Neg ==
    /\ pc = "in"
    /\ Return(__neg__(heap, a), OpVec("neg", "a", ""), "out")

\* res += x
IAddRes ==
    /\ pc = "out"
    /\ res # 0
    /\ \E x \in {"a", "b"} :
           Return(__iadd__(heap, res, Var(x)), OpVec("iadd", "res", x), "upd")

\* res -= x
ISubRes ==
    /\ pc = "out"
    /\ res # 0
    /\ \E x \in {"a", "b"} :
           Return(__isub__(heap, res, Var(x)), OpVec("isub", "res", x), "upd")

\* res[key] = 2.0
SetRes ==
    /\ pc = "out"
    /\ res # 0
    /\ \E key \in ArithKeys :
           Return(__setitem__(heap, res, key, Float(2 * One)),
                  OpKey("setitem", "res", key, Float(2 * One)), "upd")

Next == Add \/ Sub \/ Mul \/ Div \/ Neg \/ IAddRes \/ ISubRes \/ SetRes

Spec == Init /\ [][Next]_vars

(***************************************************************************)
(* SpecRead: lookups and dot products on a vector a, then a second lookup. *)
(***************************************************************************)
XKeys == XAtoms \cup XTuples
YRead == {PyStr(cC), PyStr(cA)}

KeyAC == <<PyStr(sa), PyStr(cC)>>
KeyBC == <<PyStr(sb), PyStr(cC)>>
KeyTA == <<PyTuple(<<sa, sb>>), PyStr(cA)>>
ReadKeys == {KeyAC, KeyBC, KeyTA}
ReadValues == {Float(One), Float(2 * One)}

\* Every key a lookup of SpecRead can name.
ReadUniverse == {<<x, y>> : x \in XKeys, y \in YRead}

SeqsUpTo(S, n) == UNION {[1..m -> S] : m \in 0..n}

InitRead ==
    /\ \E fa \in {"float", "int"} :
       \E ia \in InputItems(ReadKeys, ReadValues, MaxEntries) :
           heap = [EmptyHeap EXCEPT ![1] = [factory |-> fa, items |-> ia]]
    /\ a = 1
    /\ b = 0
    /\ res = 0
    /\ ret = RetNone
    /\ op = OpVec("init", "", "")
    /\ stream = <<>>
    /\ pc = "r0"

AfterRead(p) == IF p = "r0" THEN "r1" ELSE "r2"

\* a(x_key, y_key)
Get ==
    /\ pc \in {"r0", "r1"}
    /\ \E x \in XKeys, y \in YRead :
           Return(__call__(heap, a, x, y), OpXs("call", "a", <<x>>, y), AfterRead(pc))

\* a[key]
GetByKey ==
    /\ pc \in {"r0", "r1"}
    /\ \E key \in ReadUniverse :
           Return(__getitem__(heap, a, key), OpKey("getitem", "a", key, NoNum),
                  AfterRead(pc))

\* a.dot(xvec_keys, y_key)
Dot ==
    /\ pc = "r0"
    /\ \E xs \in SeqsUpTo(XAtoms, MaxXs), y \in YRead :
           Return(dot(heap, a, xs, y), OpXs("dot", "a", xs, y), "r1")

NextRead == Get \/ GetByKey \/ Dot

SpecRead == InitRead /\ [][NextRead]_vars

(***************************************************************************)
(* Properties.                                                             *)
(***************************************************************************)
\* The weight a dictionary gives a key, a missing entry counted as zero.
Lookup(d, k) ==
    LET i == DictIndex(d, k)
    IN  IF i = 0 THEN 0 ELSE d.items[i].v.n

\* A dictionary as a mapping from its keys to their weights, order forgotten.
AsMap(d) == [k \in DictKeys(d) |-> Lookup(d, k)]

Range(xs) == {xs[i] : i \in 1..Len(xs)}
Count(xs, x) == Cardinality({i \in 1..Len(xs) : xs[i] = x})

RECURSIVE WeightedSum(_, _, _, _)
\* The sum over the distinct keys x of S of Count(xs, x) * Lookup(d, (x, y)).
WeightedSum(d, xs, y, S) ==
    IF S = {}
    THEN 0
    ELSE LET x == CHOOSE e \in S : TRUE
         IN  Count(xs, x) * Lookup(d, <<x, y>>) + WeightedSum(d, xs, y, S \ {x})

\* C1: add(a, b) returns a vector whose key set is the union of the operands'
\* key sets and whose weight at each key is the sum of the operands' weights,
\* a missing entry counted as zero; add(a, b) and add(b, a) are equal as
\* mappings.
C1_AddUnionCommutes ==
    (pc = "out" /\ op.name = "add") =>
        LET x == heap[Var(op.x)]
            y == heap[Var(op.y)]
            r == heap[res]
            q == __add__(heap, Var(op.y), Var(op.x))
        IN  /\ ret = RetVec(res)
            /\ DictKeys(r) = DictKeys(x) \cup DictKeys(y)
            /\ \A k \in DictKeys(r) : Lookup(r, k) = Lookup(x, k) + Lookup(y, k)
            /\ AsMap(q.heap[q.ret.id]) = AsMap(r)

\* a + b was computed where b has a key of its own, a and b share a key, and
\* b + a lists its entries in another order.
C1_Witness ==
    /\ pc = "out"
    /\ op.name = "add"
    /\ op.x = "a"
    /\ op.y = "b"
    /\ DictKeys(heap[b]) \ DictKeys(heap[a]) # {}
    /\ DictKeys(heap[b]) \cap DictKeys(heap[a]) # {}
    /\ LET q == __add__(heap, b, a) IN q.heap[q.ret.id].items # heap[res].items

Functional == {"add", "sub", "mul", "truediv", "neg"}

\* C2: add, subtract, scale, divide and negate return a new vector and leave
\* both operands as they were, and a later in-place update of the result
\* (+=, -=, set) changes neither operand.
C2_OperandsUnchanged ==
    [][/\ a' = a
       /\ b' = b
       /\ heap'[a] = heap[a]
       /\ heap'[b] = heap[b]
       /\ (op'.name \in Functional /\ ret'.kind = "vec") =>
              (res' = ret'.id /\ res' \notin {a, b} /\ heap[res'] = NoDict)
       /\ (op'.name \in {"iadd", "isub", "setitem"}) => res' = res]_vars

\* The result of an operator was updated in place into something that
\* differs from both operands.
C2_Witness ==
    /\ pc = "upd"
    /\ op.name \in {"iadd", "isub", "setitem"}
    /\ heap[a].items # <<>>
    /\ heap[b].items # <<>>
    /\ AsMap(heap[res]) # AsMap(heap[a])
    /\ AsMap(heap[res]) # AsMap(heap[b])

\* C6: divide(a, scalar) fails with a division error whenever scalar is zero,
\* for every vector a, the empty one included, and returns no vector.
C6_DivideByZeroFails ==
    (pc = "out" /\ op.name = "truediv" /\ op.s.n = 0) =>
        (ret = RetErr("ZeroDivisionError") /\ res = 0)

\* C4: dot(x_keys, y_key) is the sum of the weights of (x_key, y_key) over the
\* elements of x_keys, a key that occurs m times counting m times and a key
\* never set counting 0.
C4_DotBag ==
    [][op'.name = "dot" =>
          /\ ret'.kind = "num"
          /\ ret'.v.n = WeightedSum(heap[a], op'.xs, op'.yk, Range(op'.xs))]_vars

\* dot(['a', 'b', 'a'], 'C') returned 4.0 on weights ('a','C') = 1.0 and
\* ('b','C') = 2.0.
C4_Witness ==
    /\ pc = "r1"
    /\ op.name = "dot"
    /\ op.xs = <<PyStr(sa), PyStr(sb), PyStr(sa)>>
    /\ op.yk = PyStr(cC)
    /\ Lookup(heap[a], KeyAC) = One
    /\ Lookup(heap[a], KeyBC) = 2 * One
    /\ ret.v.n = 4 * One

\* The keys a lookup reads.
KeysRead(o) ==
    IF o.name = "getitem" THEN {o.key} ELSE {<<x, o.yk>> : x \in Range(o.xs)}

\* C10: get, get_by_key and dot return zero on keys never set; a read adds
\* exactly the keys it reads, each with weight zero, changes no other entry,
\* and so changes the weight of no key.
C10_DefaultZeroReads ==
    [][op'.name \in {"call", "getitem", "dot"} =>
          LET d == heap[a]
              e == heap'[a]
              read == KeysRead(op')
          IN  /\ ret'.kind = "num"
              /\ read \cap DictKeys(d) = {} => ret'.v.n = 0
              /\ DictKeys(e) = DictKeys(d) \cup read
              /\ \A i \in 1..Len(d.items) : e.items[i] = d.items[i]
              /\ \A k \in read \ DictKeys(d) : e.items[DictIndex(e, k)].v.n = 0
              /\ \A k \in ReadUniverse \cup DictKeys(d) : Lookup(e, k) = Lookup(d, k)]_vars

\* A key never set was read, which stored it with weight zero, and was then
\* read again beside an entry that kept its nonzero weight.
C10_Witness ==
    /\ pc = "r2"
    /\ op.name = "call"
    /\ ret.v.n = 0
    /\ \E i \in 1..Len(heap[a].items) :
           /\ heap[a].items[i].k = <<op.xs[1], op.yk>>
           /\ heap[a].items[i].v.n = 0
           /\ i > 1
           /\ heap[a].items[1].v.n # 0

(***************************************************************************)
(* SpecPhi: feature coding, and the perceptron update of the usage example *)
(* applied to an empty vector, followed by a dot product.                  *)
(***************************************************************************)
YPhi == {PyStr(cA), PyStr(cB), PyStr(cC)}
Rates == {Float(5), Float(7), IntNum(1)}

InitPhi ==
    /\ heap = [EmptyHeap EXCEPT ![1] = EmptyDict("float")]
    /\ a = 1
    /\ b = 0
    /\ res = 0
    /\ ret = RetNone
    /\ op = OpVec("init", "", "")
    /\ stream = <<>>
    /\ pc = "in"

\* res = SparseWeightVector.code_phi(xvec_keys, ykey)
CodePhi ==
    /\ pc = "in"
    /\ \E xs \in SeqsUpTo(XKeys, MaxXs), y \in YPhi :
           Return(code_phi(heap, xs, y), OpXs("code_phi", "", xs, y), "phi")

\* pred = code_phi(X, A); ref = code_phi(X, B); delta = (ref - pred) * r;
\* w += delta, w being the vector a.
Update ==
    /\ pc = "in"
    /\ \E X \in SeqsUpTo(XKeys, MaxXs), A \in YPhi, B \in YPhi, r \in Rates :
           LET pred == code_phi(heap, X, A)
               ref == code_phi(pred.heap, X, B)
               diff == __sub__(ref.heap, ref.ret.id, pred.ret.id)
               delta == __mul__(diff.heap, diff.ret.id, r)
               w == __iadd__(delta.heap, a, delta.ret.id)
           IN  /\ a' = w.ret.id
               /\ heap' = Collect(w.heap, {a'})
               /\ op' = OpRec("update", "a", "", r, NoKey, X, A, B)
    /\ ret' = RetNone
    /\ pc' = "upd"
    /\ UNCHANGED <<b, res, stream>>

\* w.dot(X, y) on the X of the update
DotW ==
    /\ pc = "upd"
    /\ \E y \in YPhi :
           Return(dot(heap, a, op.xs, y), OpXs("dot", "a", op.xs, y), "dot")

NextPhi == CodePhi \/ Update \/ DotW

SpecPhi == InitPhi /\ [][NextPhi]_vars

Distinct(xs) == \A i, j \in 1..Len(xs) : xs[i] = xs[j] => i = j

Digits == <<"0", "1", "2", "3", "4", "5", "6", "7", "8", "9">>
IsDigit(c) == \E d \in 1..Len(Digits) : Digits[d] = c
DigitVal(c) == (CHOOSE d \in 1..Len(Digits) : Digits[d] = c) - 1

RECURSIVE NatStr(_)
\* The decimal digits of a natural number.
NatStr(m) ==
    IF m < Len(Digits)
    THEN <<Digits[m + 1]>>
    ELSE NatStr(m \div Len(Digits)) \o <<Digits[(m % Len(Digits)) + 1]>>

RECURSIVE NatVal(_, _)
\* The number a digit string ds denotes, after the digits already read as acc.
NatVal(ds, acc) ==
    IF ds = <<>> THEN acc ELSE NatVal(Tail(ds), acc * Len(Digits) + DigitVal(ds[1]))

RECURSIVE Pow(_, _)
Pow(x, e) == IF e = 0 THEN 1 ELSE x * Pow(x, e - 1)

\* str(value): a float prints its integer part, a point and its fraction;
\* an int prints its digits alone.
str(x) ==
    LET m == Abs(x.n)
        sign == IF x.n < 0 THEN <<"-">> ELSE <<>>
    IN  IF x.f
        THEN sign \o NatStr(m \div One) \o <<".">> \o NatStr(m % One)
        ELSE sign \o NatStr(m \div One)

\* float(token): an optional sign, then digits with at most one point and at
\* least one digit; anything else raises ValueError (ok = FALSE).
float(tok) ==
    LET signed == tok # <<>> /\ tok[1] \in {"-", "+"}
        body == IF signed THEN Tail(tok) ELSE tok
        points == {i \in 1..Len(body) : body[i] = "."}
        point == IF points = {} THEN Len(body) + 1 ELSE CHOOSE i \in points : TRUE
        ip == SubSeq(body, 1, point - 1)
        fp == SubSeq(body, point + 1, Len(body))
        ok == /\ Cardinality(points) <= 1
              /\ \A i \in 1..Len(ip) : IsDigit(ip[i])
              /\ \A i \in 1..Len(fp) : IsDigit(fp[i])
              /\ Len(ip) + Len(fp) > 0
        mag == NatVal(ip, 0) * One
                   + RoundDiv(NatVal(fp, 0) * One, Pow(Len(Digits), Len(fp)))
    IN  IF ok
        THEN [ok |-> TRUE, v |-> Float(IF signed /\ tok[1] = "-" THEN -mag ELSE mag)]
        ELSE [ok |-> FALSE, v |-> NoNum]

Whitespace == {" ", "\t", "\n"}

RECURSIVE SplitFrom(_, _, _, _)
\* line.split() from character i on, cur being the token under way.
SplitFrom(line, i, cur, acc) ==
    LET done == IF cur = <<>> THEN acc ELSE Append(acc, cur)
    IN  IF i > Len(line)
        THEN done
        ELSE IF line[i] \in Whitespace
             THEN SplitFrom(line, i + 1, <<>>, done)
             ELSE SplitFrom(line, i + 1, Append(cur, line[i]), acc)

split(line) == SplitFrom(line, 1, <<>>, <<>>)

RECURSIVE join(_, _)
\* sep.join(toks)
join(sep, toks) ==
    IF toks = <<>>
    THEN <<>>
    ELSE IF Len(toks) = 1
         THEN toks[1]
         ELSE toks[1] \o sep \o join(sep, Tail(toks))

RECURSIVE SaveLoop(_, _, _)
\* for key, value in self.weights.items():
\*     print(' '.join(list(key) + [str(value)]), file=ostream)
\* join raises TypeError on an element of the key that is not a str.
SaveLoop(d, i, out) ==
    IF i > Len(d.items)
    THEN [stream |-> out, exc |-> ""]
    ELSE LET e == d.items[i]
         IN  IF \E j \in 1..Len(e.k) : e.k[j].t # "str"
             THEN [stream |-> out, exc |-> "TypeError"]
             ELSE SaveLoop(d, i + 1,
                      Append(out,
                          join(<<" ">>, [j \in 1..Len(e.k) |-> e.k[j].v[1]] \o <<str(e.v)>>)
                              \o <<"\n">>))

save(h, self, ostream) ==
    LET l == SaveLoop(h[self], 1, ostream)
    IN  [stream |-> l.stream,
         ret |-> IF l.exc = "" THEN RetNone ELSE RetErr(l.exc)]

RECURSIVE LoadLoop(_, _, _, _)
\* for line in istream:
\*     fields = line.split()
\*     key, value = tuple(fields[:-1]), float(fields[-1])
\*     self.weights[key] = value
\* fields[-1] of an empty list raises IndexError.
LoadLoop(h, w, istream, i) ==
    IF i > Len(istream)
    THEN [heap |-> h, exc |-> ""]
    ELSE LET fields == split(istream[i])
         IN  IF fields = <<>>
             THEN [heap |-> h, exc |-> "IndexError"]
             ELSE LET key == [j \in 1..(Len(fields) - 1) |-> PyStr(fields[j])]
                      x == float(fields[Len(fields)])
                  IN  IF ~x.ok
                      THEN [heap |-> h, exc |-> "ValueError"]
                      ELSE LoadLoop([h EXCEPT ![w] = DictSetItem(@, key, x.v)],
                                    w, istream, i + 1)

\* A load that fills the dictionary the vector already has.
loadKeepsWeights(h, self, istream) ==
    LET l == LoadLoop(h, self, istream, 1)
    IN  [heap |-> l.heap, weights |-> self,
         ret |-> IF l.exc = "" THEN RetNone ELSE RetErr(l.exc)]

\* self.weights = defaultdict(int), then the lines; weights is the address
\* of the dictionary the vector holds afterwards.
load(h, self, istream) ==
    LET w == Alloc(h)
        l == LoadLoop([h EXCEPT ![w] = EmptyDict("int")], w, istream, 1)
    IN  [heap |-> l.heap, weights |-> w,
         ret |-> IF l.exc = "" THEN RetNone ELSE RetErr(l.exc)]

(***************************************************************************)
(* SpecIO: a vector a is saved to a stream and the stream loaded into b.   *)
(***************************************************************************)
sab == <<"a", " ", "b">>
KeyWA == <<PyStr(sab), PyStr(cA)>>
IOKeys == {KeyAA, KeyBC, KeyTA, KeyWA}
IOValues == {Float(15), Float(-5), IntNum(2)}

\* What b holds before the load.
IOBefore == {<<>>, <<[k |-> KeyBC, v |-> Float(One)]>>}

InitIO ==
    /\ \E ia \in InputItems(IOKeys, IOValues, MaxEntries), ib \in IOBefore :
           heap = [EmptyHeap EXCEPT ![1] = [factory |-> "float", items |-> ia],
                                    ![2] = [factory |-> "float", items |-> ib]]
    /\ a = 1
    /\ b = 2
    /\ res = 0
    /\ ret = RetNone
    /\ op = OpVec("init", "", "")
    /\ stream = <<>>
    /\ pc = "in"

\* a.save(stream)
Save ==
    /\ pc = "in"
    /\ LET r == save(heap, a, stream)
       IN  /\ stream' = r.stream
           /\ ret' = r.ret
    /\ op' = OpVec("save", "a", "")
    /\ pc' = "saved"
    /\ UNCHANGED <<heap, a, b, res>>

\* b.load(stream), the stream read from its start
LoadSaved ==
    /\ pc = "saved"
    /\ LET r == load(heap, b, stream)
       IN  /\ b' = r.weights
           /\ heap' = Collect(r.heap, {a, b'})
           /\ ret' = r.ret
    /\ op' = OpVec("load", "b", "")
    /\ pc' = "loaded"
    /\ UNCHANGED <<a, res, stream>>

NextIO == Save \/ LoadSaved

SpecIO == InitIO /\ [][NextIO]_vars

(***************************************************************************)
(* SpecLoad: a text of one or two lines is loaded into b.                  *)
(***************************************************************************)
Tokens == {<<"a">>, <<"A">>, <<"1", ".", "5">>, <<"-", "2">>}
TextLine(toks) == join(<<" ">>, toks) \o <<"\n">>
InputLines == {TextLine(toks) : toks \in SeqsUpTo(Tokens, MaxTokens)}
GoodLine == TextLine(<<sb, cC, <<"1", ".", "0">>>>)
InputTexts == {<<l>> : l \in InputLines} \cup {<<GoodLine, l>> : l \in InputLines}

InitLoad ==
    /\ \E ib \in IOBefore :
           heap = [EmptyHeap EXCEPT ![2] = [factory |-> "float", items |-> ib]]
    /\ a = 0
    /\ b = 2
    /\ res = 0
    /\ ret = RetNone
    /\ op = OpVec("init", "", "")
    /\ stream = <<>>
    /\ pc = "in"

\* b.load(text)
LoadText ==
    /\ pc = "in"
    /\ \E text \in InputTexts :
           LET r == load(heap, b, text)
           IN  /\ stream' = text
               /\ b' = r.weights
               /\ heap' = Collect(r.heap, {b'})
               /\ ret' = r.ret
    /\ op' = OpVec("load", "b", "")
    /\ pc' = "parsed"
    /\ UNCHANGED <<a, res>>

NextLoad == LoadText

SpecLoad == InitLoad /\ [][NextLoad]_vars

\* A line is malformed when it has fewer than two tokens or its last token
\* is not numeric.
Malformed(line) ==
    LET fields == split(line)
    IN  Len(fields) < 2 \/ ~float(fields[Len(fields)]).ok

\* C7: load fails on every non-empty line that is malformed (fewer than two
\* tokens, or a last token that is not numeric), and stores no entry for it.
C7_MalformedLineFails ==
    pc = "parsed" =>
        \A i \in 1..Len(stream) :
            (split(stream[i]) # <<>> /\ Malformed(stream[i])) =>
                /\ ret.kind = "err"
                /\ [j \in 1..(Len(split(stream[i])) - 1) |-> PyStr(split(stream[i])[j])]
                       \notin DictKeys(heap[b])

\* A str with at least one character and no whitespace in it.
SingleToken(o) ==
    /\ o.t = "str"
    /\ o.v[1] # <<>>
    /\ \A i \in 1..Len(o.v[1]) : o.v[1][i] \notin Whitespace

\* Every key is a pair (x_key, y_key) of single-token strs.
AtomicKeys(d) ==
    \A k \in DictKeys(d) : Len(k) = 2 /\ SingleToken(k[1]) /\ SingleToken(k[2])

\* C8: when every key of v is a pair of single-token atomic strings, loading
\* what v saved leaves u, whatever it held, with the keys of v and no others,
\* each with the weight v gives it.
C8_SaveLoadRoundTrip ==
    (pc = "loaded" /\ AtomicKeys(heap[a])) =>
        /\ ret = RetNone
        /\ DictKeys(heap[b]) = DictKeys(heap[a])
        /\ \A k \in DictKeys(heap[a]) : Lookup(heap[b], k) = Lookup(heap[a], k)

\* Two entries, a negative float among them, went through save and load into
\* a vector that held another key before.
C8_Witness ==
    /\ pc = "loaded"
    /\ AtomicKeys(heap[a])
    /\ DictKeys(heap[a]) = {KeyAA, KeyBC}
    /\ Lookup(heap[a], KeyAA) = -5
    /\ Lookup(heap[b], KeyAA) = -5
    /\ Len(stream) = 2

\* The tokens of an entry's line: the elements of x_key when it is a tuple,
\* x_key itself when it is atomic, then y_key, then the value.
EntryTokens(e) == e.k[1].v \o e.k[2].v \o <<str(e.v)>>

\* Every key is a pair whose x_key is a str or a tuple of strs and whose
\* y_key is a str, none with whitespace in it.
PairKeys(d) ==
    \A k \in DictKeys(d) :
        /\ Len(k) = 2
        /\ k[2].t = "str"
        /\ \A j \in 1..2 : \A i \in 1..Len(k[j].v) :
               k[j].v[i] # <<>> /\ \A c \in 1..Len(k[j].v[i]) : k[j].v[i][c] \notin Whitespace

\* C9: save writes one line per entry, its tokens being the elements of
\* x_key (x_key itself when atomic), y_key and the value in that order; an
\* entry with a tuple x_key of n symbols is written as n + 2 tokens.
C9_SaveLineTokens ==
    (pc = "saved" /\ PairKeys(heap[a])) =>
        /\ ret = RetNone
        /\ Len(stream) = Len(heap[a].items)
        /\ \A i \in 1..Len(stream) : split(stream[i]) = EntryTokens(heap[a].items[i])
====
